---- MODULE Spec2Model ----
(***************************************************************************)
(* Booking lifecycle, room availability flag and payment reconciliation   *)
(* of the hotel_booking repository, as a state machine over the database  *)
(* rows (bookings, rooms, payments) and the requests in flight.            *)
(*                                                                         *)
(* Dates are day numbers, timestamps are clock seconds, money is whole     *)
(* units.  The response to a request is an operator of the state the       *)
(* request finds; a request that is refused changes nothing.               *)
(***************************************************************************)
EXTENDS Integers, Sequences, FiniteSets, TLC

\* ---------------------------------------------------------------- bounds
MaxClock == 2        \* the clock runs over seconds 1..MaxClock
MaxBookings == 2     \* booking rows created in one behaviour
BasePrice == 1       \* room_type.base_price of every room (catalog data)
MaxNights == 3       \* longest stay of the booking that payments are made on
MaxAmount == 3       \* largest amount a payment request carries
MaxPayments == 4     \* payment rows created in one behaviour

\* ------------------------------------------------------- program constants
Null == 0            \* a null DateTimeField
Today == 1           \* timezone.now().date()

Rooms == {"r1", "r2"}

STATUS_PENDING == "pending"
STATUS_CONFIRMED == "confirmed"
STATUS_CHECKED_IN == "checked_in"
STATUS_CHECKED_OUT == "checked_out"
STATUS_CANCELLED == "cancelled"
STATUS_NO_SHOW == "no_show"

STATUS_CHOICES ==
    {STATUS_PENDING, STATUS_CONFIRMED, STATUS_CHECKED_IN,
     STATUS_CHECKED_OUT, STATUS_CANCELLED, STATUS_NO_SHOW}

PAYMENT_PENDING == "pending"
PAYMENT_PAID == "paid"
PAYMENT_PARTIALLY_PAID == "partially_paid"

PAYMENT_STATUS_COMPLETED == "completed"
PAYMENT_STATUS_FAILED == "failed"
METHOD_CREDIT_CARD == "credit_card"
METHOD_CASH == "cash"

\* A null transaction_id, and the id of the payment intent the gateway
\* reports.
NoTransaction == "NULL"
TransactionIds == {"pi_1"}

\* The statuses BookingSerializer.validate counts as occupying the room.
ActiveStatuses == {STATUS_PENDING, STATUS_CONFIRMED, STATUS_CHECKED_IN}

VARIABLES
    bookings,   \* Booking rows, in id order: bookings[id]
    rooms,      \* Room.is_available of every room
    payments,   \* Payment rows, in id order
    now,        \* timezone.now(), in seconds
    reqs        \* the requests in flight, by client

vars == <<bookings, rooms, payments, now, reqs>>

BookingIds == 1..Len(bookings)

\* The clients whose requests may interleave.
Clients == {"c1", "c2"}

\* A client with no request in flight.
Idle == [pc |-> "idle", path |-> "", room |-> "", check_in_date |-> 0,
         check_out_date |-> 0, result |-> ""]

Has(data, f) == f \in DOMAIN data

\* ------------------------------------------------------------ Booking model

\* Booking.generate_booking_number: the clock second, formatted.
generate_booking_number == now

\* Booking.duration_days
duration_days(b) == b.check_out_date - b.check_in_date

\* Booking.balance_due
balance_due(b) ==
    IF b.total_price - b.paid_amount > 0 THEN b.total_price - b.paid_amount ELSE 0

\* The row Booking.objects.create builds before it is saved.
NewBooking(room, ci, co, st, price) ==
    [room |-> room, check_in_date |-> ci, check_out_date |-> co,
     status |-> st, payment_status |-> PAYMENT_PENDING,
     total_price |-> price, paid_amount |-> 0,
     confirmed_at |-> Null, checked_in_at |-> Null,
     checked_out_at |-> Null, cancelled_at |-> Null,
     booking_number |-> generate_booking_number]

\* pre_save receiver update_room_availability: the Room.is_available flags
\* after saving `instance`; id = 0 is a booking with no pk yet.
update_room_availability(bks, rms, id, instance) ==
    IF id # 0
    THEN LET old == bks[id]
             r1 == IF /\ instance.status \in {STATUS_CANCELLED, STATUS_NO_SHOW}
                      /\ old.status \notin {STATUS_CANCELLED, STATUS_NO_SHOW}
                   THEN [rms EXCEPT ![instance.room] = TRUE]
                   ELSE rms
         IN  IF old.room # instance.room
             THEN LET r2 == [r1 EXCEPT ![old.room] = TRUE]
                  IN  IF instance.status \notin
                            {STATUS_CANCELLED, STATUS_NO_SHOW, STATUS_CHECKED_OUT}
                      THEN [r2 EXCEPT ![instance.room] = FALSE]
                      ELSE r2
             ELSE r1
    ELSE IF instance.status \notin {STATUS_CANCELLED, STATUS_NO_SHOW}
         THEN [rms EXCEPT ![instance.room] = FALSE]
         ELSE rms

\* A faulty schema without the unique constraint on booking_number.
NumberTaken_unconstrained(bks, n) == FALSE

\* booking_number is unique=True: the INSERT of a second row with the same
\* number raises IntegrityError.
NumberTaken(bks, n) == \E i \in 1..Len(bks) : bks[i].booking_number = n

\* Booking.save of an existing row: the pre_save receiver, then the UPDATE.
SaveExisting(id, instance) ==
    /\ rooms' = update_room_availability(bookings, rooms, id, instance)
    /\ bookings' = [bookings EXCEPT ![id] = instance]

\* A faulty check_out that stamps checked_in_at instead of checked_out_at.
check_out_wrong_stamp(b) ==
    [b EXCEPT !.status = STATUS_CHECKED_OUT, !.checked_in_at = now]

\* Booking.confirm / check_in / check_out / cancel / mark_as_no_show: the
\* instance each of them saves.  None of them looks at the current status.
confirm(b) == [b EXCEPT !.status = STATUS_CONFIRMED, !.confirmed_at = now]
check_in(b) == [b EXCEPT !.status = STATUS_CHECKED_IN, !.checked_in_at = now]
check_out(b) == [b EXCEPT !.status = STATUS_CHECKED_OUT, !.checked_out_at = now]
cancel(b) == [b EXCEPT !.status = STATUS_CANCELLED, !.cancelled_at = now]
mark_as_no_show(b) == [b EXCEPT !.status = STATUS_NO_SHOW]

\* ------------------------------------------------------------------- Init
Init ==
    /\ bookings = <<>>
    /\ rooms = [r \in Rooms |-> TRUE]
    /\ payments = <<>>
    /\ now = 1
    /\ reqs = [c \in Clients |-> Idle]

\* Time passes.
Tick ==
    /\ now < MaxClock
    /\ now' = now + 1
    /\ UNCHANGED <<bookings, rooms, payments, reqs>>

\* ------------------------------------------------------- BookingSerializer

\* The queryset of BookingSerializer.validate: active bookings on `room`
\* whose stay overlaps [ci, co).
overlapping_bookings(bks, room, ci, co) ==
    {i \in 1..Len(bks) :
        /\ bks[i].room = room
        /\ bks[i].check_in_date < co
        /\ bks[i].check_out_date > ci
        /\ bks[i].status \in ActiveStatuses}

\* BookingSerializer.validate: "ok", or the field the ValidationError names.
\* `instance` is 0 for a create (self.instance is None).
validate(bks, instance, data) ==
    IF /\ Has(data, "check_in_date") /\ Has(data, "check_out_date")
       /\ data.check_out_date <= data.check_in_date
    THEN "check_out_date"
    ELSE IF Has(data, "check_in_date") /\ data.check_in_date < Today
    THEN "check_in_date"
    ELSE IF /\ instance = 0
            /\ Has(data, "room") /\ Has(data, "check_in_date")
            /\ Has(data, "check_out_date")
            /\ overlapping_bookings(bks, data.room, data.check_in_date,
                                    data.check_out_date) # {}
    THEN "room"
    ELSE "ok"

\* BookingSerializer.create: the row handed to Booking.objects.create.
SerializerInstance(data) ==
    NewBooking(data.room, data.check_in_date, data.check_out_date, data.status,
               BasePrice * (data.check_out_date - data.check_in_date))

\* The response to POST /bookings/ with `data`.
SerializerCreateResponse(bks, data) ==
    IF validate(bks, 0, data) # "ok" THEN "ValidationError"
    ELSE IF NumberTaken(bks, generate_booking_number) THEN "IntegrityError"
    ELSE "ok"

\* POST /bookings/: BookingSerializer.validate, create, Booking.save.  The
\* request is not wrapped in a transaction: the pre_save receiver's
\* room.save() stays when the INSERT then fails on the unique number.
SerializerCreate(room, ci, co, st) ==
    LET data == [room |-> room, check_in_date |-> ci, check_out_date |-> co,
                 status |-> st]
        response == SerializerCreateResponse(bookings, data)
        instance == SerializerInstance(data)
    IN  /\ Len(bookings) < MaxBookings
        /\ UNCHANGED <<payments, now, reqs>>
        /\ IF response = "ValidationError"
           THEN UNCHANGED <<bookings, rooms>>
           ELSE /\ rooms' = update_room_availability(bookings, rooms, 0, instance)
                /\ IF response = "IntegrityError"
                   THEN UNCHANGED bookings
                   ELSE bookings' = Append(bookings, instance)

\* ---------------------------------------------------------- BookingService

\* The response of BookingService.create_booking: the room is looked up with
\* is_available=True; the dates are not validated and no overlap query is
\* made.
ServiceCreateResponse(bks, rms, room) ==
    IF ~rms[room] THEN "BookingError"
    ELSE IF NumberTaken(bks, generate_booking_number) THEN "IntegrityError"
    ELSE "ok"

\* BookingService.create_booking, in one transaction.
ServiceCreate(room, ci, co) ==
    LET instance == NewBooking(room, ci, co, STATUS_PENDING, BasePrice * (co - ci))
    IN  /\ Len(bookings) < MaxBookings
        /\ UNCHANGED <<payments, now, reqs>>
        /\ IF ServiceCreateResponse(bookings, rooms, room) # "ok"
           THEN UNCHANGED <<bookings, rooms>>
           ELSE /\ rooms' = update_room_availability(bookings, rooms, 0, instance)
                /\ bookings' = Append(bookings, instance)

\* The response of BookingService.confirm_booking.
ServiceConfirmResponse(b) ==
    IF b.status # STATUS_PENDING THEN "BookingError" ELSE "ok"

\* BookingService.confirm_booking
ServiceConfirm(id) ==
    /\ UNCHANGED <<payments, now, reqs>>
    /\ IF ServiceConfirmResponse(bookings[id]) # "ok"
       THEN UNCHANGED <<bookings, rooms>>
       ELSE SaveExisting(id, confirm(bookings[id]))

\* BookingService.get_available_rooms: the rooms with is_available set that
\* have no confirmed or checked_in booking overlapping [ci, co).
get_available_rooms(bks, rms, ci, co) ==
    {r \in Rooms :
        /\ rms[r]
        /\ ~\E i \in 1..Len(bks) :
              /\ bks[i].room = r
              /\ bks[i].status \in {STATUS_CONFIRMED, STATUS_CHECKED_IN}
              /\ bks[i].check_in_date < co
              /\ bks[i].check_out_date > ci}

\* ------------------------------------------------- BookingValidationMixin

\* BookingValidationMixin.validate_dates: the maximum stay, in days.
max_duration == 30

\* BookingValidationMixin.validate_dates: "ok" or "ValidationError".
validate_dates(attrs) ==
    IF ~Has(attrs, "check_in_date") \/ ~Has(attrs, "check_out_date")
    THEN "ValidationError"
    ELSE IF attrs.check_in_date < Today THEN "ValidationError"
    ELSE IF attrs.check_out_date <= attrs.check_in_date THEN "ValidationError"
    ELSE IF attrs.check_out_date - attrs.check_in_date > max_duration
    THEN "ValidationError"
    ELSE "ok"

\* BookingValidationMixin.validate_room_availability: confirmed or
\* checked_in bookings on the room overlapping [ci, co), the booking under
\* update (instance, 0 for none) excluded.
validate_room_availability(bks, instance, room, ci, co) ==
    LET overlapping ==
            {i \in 1..Len(bks) :
                /\ bks[i].room = room
                /\ bks[i].status \in {STATUS_CONFIRMED, STATUS_CHECKED_IN}
                /\ bks[i].check_in_date < co
                /\ bks[i].check_out_date > ci
                /\ i # instance}
    IN  IF overlapping # {} THEN "ValidationError" ELSE "ok"

\* ---------------------------------------------------------- BookingViewSet

\* The statuses BookingViewSet.cancel refuses.
CancelRefused ==
    {STATUS_CHECKED_OUT, STATUS_CANCELLED, STATUS_NO_SHOW}

\* The response of the BookingViewSet action that moves a booking to `target`
\* (confirm, check_in, check_out, cancel, mark_no_show).
ViewResponse(b, target) ==
    CASE target = STATUS_CONFIRMED ->
            IF b.status # STATUS_PENDING THEN "400" ELSE "ok"
      [] target = STATUS_CHECKED_IN ->
            IF b.status # STATUS_CONFIRMED THEN "400" ELSE "ok"
      [] target = STATUS_CHECKED_OUT ->
            IF b.status # STATUS_CHECKED_IN THEN "400" ELSE "ok"
      [] target = STATUS_CANCELLED ->
            IF b.status \in CancelRefused THEN "400" ELSE "ok"
      [] target = STATUS_NO_SHOW ->
            IF b.status # STATUS_CONFIRMED THEN "400" ELSE "ok"
      [] OTHER -> "404"

\* The instance the BookingViewSet action for `target` saves.
ViewInstance(b, target) ==
    CASE target = STATUS_CONFIRMED ->
            [b EXCEPT !.status = STATUS_CONFIRMED, !.confirmed_at = now]
      [] target = STATUS_CHECKED_IN ->
            [b EXCEPT !.status = STATUS_CHECKED_IN, !.checked_in_at = now]
      [] target = STATUS_CHECKED_OUT ->
            [b EXCEPT !.status = STATUS_CHECKED_OUT, !.checked_out_at = now]
      [] target = STATUS_CANCELLED ->
            [b EXCEPT !.status = STATUS_CANCELLED, !.cancelled_at = now]
      [] target = STATUS_NO_SHOW ->
            [b EXCEPT !.status = STATUS_NO_SHOW]
      [] OTHER -> b

\* A status action of BookingViewSet: 400 when refused, else the save.
ViewAction(id, target) ==
    /\ UNCHANGED <<payments, now, reqs>>
    /\ IF ViewResponse(bookings[id], target) # "ok"
       THEN UNCHANGED <<bookings, rooms>>
       ELSE SaveExisting(id, ViewInstance(bookings[id], target))

ViewConfirm(id) == ViewAction(id, STATUS_CONFIRMED)
ViewCheckIn(id) == ViewAction(id, STATUS_CHECKED_IN)
ViewCheckOut(id) == ViewAction(id, STATUS_CHECKED_OUT)
ViewCancel(id) == ViewAction(id, STATUS_CANCELLED)
ViewMarkNoShow(id) == ViewAction(id, STATUS_NO_SHOW)

\* ---------------------------------------------- BookingStatusUpdateSerializer

\* valid_transitions of validate_status
valid_transitions(s) ==
    CASE s = STATUS_PENDING -> {STATUS_CONFIRMED, STATUS_CANCELLED}
      [] s = STATUS_CONFIRMED -> {STATUS_CHECKED_IN, STATUS_CANCELLED, STATUS_NO_SHOW}
      [] s = STATUS_CHECKED_IN -> {STATUS_CHECKED_OUT}
      [] OTHER -> {}

\* BookingStatusUpdateSerializer.validate_status
StatusUpdateResponse(b, value) ==
    IF value \notin valid_transitions(b.status) THEN "ValidationError" ELSE "ok"

\* BookingStatusUpdateSerializer.update: the model method the status selects.
StatusUpdateInstance(b, value) ==
    CASE value = STATUS_CONFIRMED -> confirm(b)
      [] value = STATUS_CHECKED_IN -> check_in(b)
      [] value = STATUS_CHECKED_OUT -> check_out(b)
      [] value = STATUS_CANCELLED -> cancel(b)
      [] value = STATUS_NO_SHOW -> mark_as_no_show(b)
      [] OTHER -> b

\* BookingStatusUpdateSerializer: validate_status, then update.
StatusUpdate(id, value) ==
    /\ UNCHANGED <<payments, now, reqs>>
    /\ IF StatusUpdateResponse(bookings[id], value) # "ok"
       THEN UNCHANGED <<bookings, rooms>>
       ELSE SaveExisting(id, StatusUpdateInstance(bookings[id], value))

\* ---------------------------------------------- PUT/PATCH /bookings/{id}/

\* The stays (check-in, check-out) offered to requests: three valid ones,
\* one that ends before it starts and one that starts yesterday.
Stays == {<<1, 2>>, <<2, 3>>, <<1, 3>>, <<2, 1>>, <<0, 2>>}

\* Request bodies that move a booking: another room or another stay.
MovePatches ==
    {[room |-> r] : r \in Rooms}
    \cup {[check_in_date |-> st[1], check_out_date |-> st[2]] : st \in Stays}

\* Request bodies that write the status field.
StatusPatches == {[status |-> s] : s \in STATUS_CHOICES}

\* ModelSerializer.update: every validated field is set on the instance.
Patched(b, data) ==
    [f \in DOMAIN b |-> IF f \in DOMAIN data THEN data[f] ELSE b[f]]

\* The response to PUT/PATCH /bookings/{id}/ with `data`.
BookingUpdateResponse(bks, id, data) ==
    IF validate(bks, id, data) # "ok" THEN "ValidationError" ELSE "ok"

\* BookingViewSet.update / partial_update with BookingSerializer: validate
\* (self.instance is set, so no availability query), then instance.save().
BookingUpdate(id, data) ==
    /\ UNCHANGED <<payments, now, reqs>>
    /\ IF BookingUpdateResponse(bookings, id, data) # "ok"
       THEN UNCHANGED <<bookings, rooms>>
       ELSE SaveExisting(id, Patched(bookings[id], data))

\* ------------------------------------------------------------------- Next
Create ==
    \/ \E r \in Rooms, st \in Stays : SerializerCreate(r, st[1], st[2], STATUS_PENDING)
    \/ \E r \in Rooms, st \in Stays : ServiceCreate(r, st[1], st[2])

Transition ==
    \E id \in BookingIds :
        \/ ViewConfirm(id)
        \/ ViewCheckIn(id)
        \/ ViewCheckOut(id)
        \/ ViewCancel(id)
        \/ ViewMarkNoShow(id)
        \/ ServiceConfirm(id)
        \/ \E value \in STATUS_CHOICES : StatusUpdate(id, value)

Move == \E id \in BookingIds, data \in MovePatches : BookingUpdate(id, data)

SetStatus == \E id \in BookingIds, data \in StatusPatches : BookingUpdate(id, data)

Next == Tick \/ Create \/ Transition \/ Move

Spec == Init /\ [][Next]_vars

\* ------------------------------------------- one booking's status lifecycle

\* A booking just created through POST /bookings/ at second 1.
InitStatus ==
    /\ now = 1
    /\ \E r \in Rooms :
          /\ bookings = <<NewBooking(r, 1, 2, STATUS_PENDING, BasePrice)>>
          /\ rooms = [x \in Rooms |-> x # r]
    /\ payments = <<>>
    /\ reqs = [c \in Clients |-> Idle]

NextStatus == Tick \/ Transition \/ SetStatus

SpecStatus == InitStatus /\ [][NextStatus]_vars

\* ------------------------------------------------- creation in any status
\* POST /bookings/ accepts the writable status field, so a booking can be
\* created in any status; create_booking always creates it pending.
CreateAny ==
    \/ \E r \in Rooms, st \in Stays, s \in STATUS_CHOICES :
          SerializerCreate(r, st[1], st[2], s)
    \/ \E r \in Rooms, st \in Stays : ServiceCreate(r, st[1], st[2])

NextCreate == Tick \/ CreateAny

SpecCreate == Init /\ [][NextCreate]_vars

\* ------------------------------------------- concurrent create requests
\* Each client sends one create request.  The availability check and the
\* INSERT are separate database statements: BookingSerializer.validate runs
\* its query before create is called, and create_booking reads the room with
\* a plain SELECT (no select_for_update) before Booking.objects.create, so
\* statements of another request can commit in between.

\* The request arrives.
RaceStart(c, path, room, ci, co) ==
    /\ reqs[c].pc = "idle"
    /\ reqs' = [reqs EXCEPT ![c] =
                  [pc |-> "check", path |-> path, room |-> room,
                   check_in_date |-> ci, check_out_date |-> co, result |-> ""]]
    /\ UNCHANGED <<bookings, rooms, payments, now>>

\* The availability check: validate's overlap query, or the service's
\* Room.objects.get(..., is_available=True).
RaceCheck(c) ==
    LET r == reqs[c]
        data == [room |-> r.room, check_in_date |-> r.check_in_date,
                 check_out_date |-> r.check_out_date, status |-> STATUS_PENDING]
        refused == IF r.path = "serializer"
                   THEN validate(bookings, 0, data) # "ok"
                   ELSE ~rooms[r.room]
    IN  /\ r.pc = "check"
        /\ reqs' = [reqs EXCEPT ![c] =
                      IF refused
                      THEN [r EXCEPT !.pc = "done",
                                     !.result = IF r.path = "serializer"
                                                THEN "ValidationError"
                                                ELSE "BookingError"]
                      ELSE [r EXCEPT !.pc = "insert"]]
        /\ UNCHANGED <<bookings, rooms, payments, now>>

\* Booking.objects.create: the pre_save receiver and the INSERT.  The
\* service's transaction rolls the receiver's room.save() back when the
\* INSERT fails; the serializer's request has no transaction.
RaceInsert(c) ==
    LET r == reqs[c]
        instance == NewBooking(r.room, r.check_in_date, r.check_out_date,
                               STATUS_PENDING,
                               BasePrice * (r.check_out_date - r.check_in_date))
        taken == NumberTaken(bookings, instance.booking_number)
    IN  /\ r.pc = "insert"
        /\ Len(bookings) < MaxBookings
        /\ reqs' = [reqs EXCEPT ![c] =
                      [r EXCEPT !.pc = "done",
                                !.result = IF taken THEN "IntegrityError" ELSE "ok"]]
        /\ rooms' = IF taken /\ r.path = "service"
                    THEN rooms
                    ELSE update_room_availability(bookings, rooms, 0, instance)
        /\ bookings' = IF taken THEN bookings ELSE Append(bookings, instance)
        /\ UNCHANGED <<payments, now>>

NextRace ==
    \/ Tick
    \/ \E c \in Clients, path \in {"serializer", "service"}, r \in Rooms,
          st \in Stays : RaceStart(c, path, r, st[1], st[2])
    \/ \E c \in Clients : RaceCheck(c)
    \/ \E c \in Clients : RaceInsert(c)

SpecRace == Init /\ [][NextRace]_vars

\* ---------------------------------------------------------------- payments

PaymentRow(id, amount, method, txid, st) ==
    [booking |-> id, amount |-> amount, payment_method |-> method,
     transaction_id |-> txid, status |-> st]

\* booking.payments.filter(status=completed).aggregate(Sum('amount')), or 0.
RECURSIVE aggregate_sum(_, _)
aggregate_sum(pays, id) ==
    IF pays = <<>> THEN 0
    ELSE (IF Head(pays).booking = id /\ Head(pays).status = PAYMENT_STATUS_COMPLETED
          THEN Head(pays).amount ELSE 0) + aggregate_sum(Tail(pays), id)

\* A faulty receiver that adds the new amount to paid_amount instead of
\* recomputing the sum of the completed rows.
update_booking_payment_status_incremental(bks, pays, instance) ==
    IF instance.status = PAYMENT_STATUS_COMPLETED
    THEN LET b == bks[instance.booking]
             total_paid == b.paid_amount + instance.amount
         IN  [bks EXCEPT ![instance.booking] =
                [b EXCEPT !.paid_amount = total_paid,
                          !.payment_status =
                              IF total_paid >= b.total_price THEN PAYMENT_PAID
                              ELSE IF total_paid > 0 THEN PAYMENT_PARTIALLY_PAID
                              ELSE PAYMENT_PENDING]]
    ELSE bks

\* A faulty receiver that does not test the status of the created row and
\* adds its amount to paid_amount.
update_booking_payment_status_any_status(bks, pays, instance) ==
    LET b == bks[instance.booking]
        total_paid == b.paid_amount + instance.amount
    IN  [bks EXCEPT ![instance.booking] =
           [b EXCEPT !.paid_amount = total_paid,
                     !.payment_status =
                         IF total_paid >= b.total_price THEN PAYMENT_PAID
                         ELSE IF total_paid > 0 THEN PAYMENT_PARTIALLY_PAID
                         ELSE PAYMENT_PENDING]]

\* A faulty receiver that reports paid only when more than the total is paid.
update_booking_payment_status_strict(bks, pays, instance) ==
    IF instance.status = PAYMENT_STATUS_COMPLETED
    THEN LET total_paid == aggregate_sum(pays, instance.booking)
             b == bks[instance.booking]
         IN  [bks EXCEPT ![instance.booking] =
                [b EXCEPT !.paid_amount = total_paid,
                          !.payment_status =
                              IF total_paid > b.total_price THEN PAYMENT_PAID
                              ELSE IF total_paid > 0 THEN PAYMENT_PARTIALLY_PAID
                              ELSE PAYMENT_PENDING]]
    ELSE bks

\* post_save receiver update_booking_payment_status for the created row
\* `instance`: the bookings after it has run (pays holds the new row).
update_booking_payment_status(bks, pays, instance) ==
    IF instance.status = PAYMENT_STATUS_COMPLETED
    THEN LET total_paid == aggregate_sum(pays, instance.booking)
             b == bks[instance.booking]
         IN  [bks EXCEPT ![instance.booking] =
                [b EXCEPT !.paid_amount = total_paid,
                          !.payment_status =
                              IF total_paid >= b.total_price THEN PAYMENT_PAID
                              ELSE IF total_paid > 0 THEN PAYMENT_PARTIALLY_PAID
                              ELSE PAYMENT_PENDING]]
    ELSE bks

\* Payment.objects.create(row): the INSERT, then the post_save receiver.
PaymentCreated(bks, pays, row) ==
    [bookings |-> update_booking_payment_status(bks, Append(pays, row), row),
     payments |-> Append(pays, row)]

\* The booking Booking.record_payment saves before it creates its Payment.
RecordPaymentInstance(b, amount) ==
    LET paid == b.paid_amount + amount
    IN  [b EXCEPT !.paid_amount = paid,
                  !.payment_status =
                      IF paid >= b.total_price THEN PAYMENT_PAID
                      ELSE IF paid > 0 THEN PAYMENT_PARTIALLY_PAID
                      ELSE b.payment_status]

\* Booking.record_payment: the save, then a completed credit_card Payment of
\* its own.
record_payment(bks, pays, id, amount) ==
    PaymentCreated([bks EXCEPT ![id] = RecordPaymentInstance(bks[id], amount)],
                   pays,
                   PaymentRow(id, amount, METHOD_CREDIT_CARD, NoTransaction,
                              PAYMENT_STATUS_COMPLETED))

\* Payment.objects.create(...completed...) followed by
\* booking.record_payment(amount), as process_payment and the webhook do.
CreateThenRecord(bks, pays, id, amount, method, txid) ==
    LET s1 == PaymentCreated(bks, pays,
                             PaymentRow(id, amount, method, txid,
                                        PAYMENT_STATUS_COMPLETED))
    IN  record_payment(s1.bookings, s1.payments, id, amount)

\* The response of PaymentService.process_payment.
ProcessPaymentResponse(b, amount) ==
    IF amount <= 0 THEN "PaymentError"
    ELSE IF amount > balance_due(b) THEN "PaymentError"
    ELSE "ok"

\* PaymentService.process_payment, in one transaction.
ProcessPayment(id, amount) ==
    LET s2 == CreateThenRecord(bookings, payments, id, amount, METHOD_CASH,
                               NoTransaction)
    IN  /\ Len(payments) + 2 <= MaxPayments
        /\ UNCHANGED <<rooms, now, reqs>>
        /\ IF ProcessPaymentResponse(bookings[id], amount) # "ok"
           THEN UNCHANGED <<bookings, payments>>
           ELSE /\ bookings' = s2.bookings
                /\ payments' = s2.payments

\* StripeWebhookView._handle_payment_success: no check of the amount.
WebhookSuccess(id, amount, txid) ==
    LET s2 == CreateThenRecord(bookings, payments, id, amount,
                               METHOD_CREDIT_CARD, txid)
    IN  /\ Len(payments) + 2 <= MaxPayments
        /\ UNCHANGED <<rooms, now, reqs>>
        /\ bookings' = s2.bookings
        /\ payments' = s2.payments

\* StripeWebhookView._handle_payment_failure: a failed Payment row.
WebhookFailure(id, amount, txid) ==
    LET s1 == PaymentCreated(bookings, payments,
                             PaymentRow(id, amount, METHOD_CREDIT_CARD, txid,
                                        PAYMENT_STATUS_FAILED))
    IN  /\ Len(payments) + 1 <= MaxPayments
        /\ UNCHANGED <<rooms, now, reqs>>
        /\ bookings' = s1.bookings
        /\ payments' = s1.payments

\* PaymentCreateSerializer.validate: the checks run only `if booking and
\* amount`, and an amount of 0 is falsy.
PaymentSerializerResponse(b, amount) ==
    IF amount # 0 /\ amount <= 0 THEN "ValidationError"
    ELSE IF amount # 0 /\ amount > balance_due(b) THEN "ValidationError"
    ELSE "ok"

\* PaymentCreateSerializer: validate, then create with status completed.
PaymentSerializerCreate(id, amount) ==
    LET s1 == PaymentCreated(bookings, payments,
                             PaymentRow(id, amount, METHOD_CASH, NoTransaction,
                                        PAYMENT_STATUS_COMPLETED))
    IN  /\ Len(payments) + 1 <= MaxPayments
        /\ UNCHANGED <<rooms, now, reqs>>
        /\ IF PaymentSerializerResponse(bookings[id], amount) # "ok"
           THEN UNCHANGED <<bookings, payments>>
           ELSE /\ bookings' = s1.bookings
                /\ payments' = s1.payments

\* The amounts requests carry; the gateway reports positive amounts only.
Amounts == -1..MaxAmount
GatewayAmounts == 1..MaxAmount

\* A pending booking created through POST /bookings/ for 1..MaxNights
\* nights, nothing paid yet.
InitPay ==
    /\ now = 1
    /\ \E n \in 1..MaxNights :
          bookings = <<NewBooking("r1", 1, 1 + n, STATUS_PENDING, BasePrice * n)>>
    /\ rooms = [x \in Rooms |-> x # "r1"]
    /\ payments = <<>>
    /\ reqs = [c \in Clients |-> Idle]

NextPay ==
    \/ \E id \in BookingIds, a \in Amounts : ProcessPayment(id, a)
    \/ \E id \in BookingIds, a \in Amounts : PaymentSerializerCreate(id, a)
    \/ \E id \in BookingIds, a \in GatewayAmounts, tx \in TransactionIds :
          WebhookSuccess(id, a, tx)
    \/ \E id \in BookingIds, a \in GatewayAmounts, tx \in TransactionIds :
          WebhookFailure(id, a, tx)

SpecPay == InitPay /\ [][NextPay]_vars

\* ------------------------------------- create_booking and its notification
\* BookingService.create_booking ends with
\* send_booking_confirmation_email.delay(booking.id), inside the
\* transaction.atomic block and with no try/except around it: when the
\* dispatch raises, the exception leaves the function and the transaction is
\* rolled back.  `dispatched` is whether .delay returned.

\* The response of create_booking to the caller.
ServiceCreateNotifyResponse(bks, rms, room, dispatched) ==
    IF ServiceCreateResponse(bks, rms, room) # "ok"
    THEN ServiceCreateResponse(bks, rms, room)
    ELSE IF ~dispatched THEN "DispatchError"
    ELSE "ok"

\* One call of create_booking by client c; the outcome is kept in reqs.
ServiceCreateNotify(c, room, ci, co, dispatched) ==
    LET instance == NewBooking(room, ci, co, STATUS_PENDING, BasePrice * (co - ci))
        response == ServiceCreateNotifyResponse(bookings, rooms, room, dispatched)
    IN  /\ reqs[c].pc = "idle"
        /\ Len(bookings) < MaxBookings
        /\ reqs' = [reqs EXCEPT ![c] =
                      [pc |-> "done",
                       path |-> IF dispatched THEN "service" ELSE "dispatch_failed",
                       room |-> room, check_in_date |-> ci,
                       check_out_date |-> co, result |-> response]]
        /\ IF response # "ok"
           THEN UNCHANGED <<bookings, rooms>>
           ELSE /\ rooms' = update_room_availability(bookings, rooms, 0, instance)
                /\ bookings' = Append(bookings, instance)
        /\ UNCHANGED <<payments, now>>

NextNotify ==
    \/ Tick
    \/ \E c \in Clients, r \in Rooms, st \in Stays, dispatched \in BOOLEAN :
          ServiceCreateNotify(c, r, st[1], st[2], dispatched)

SpecNotify == Init /\ [][NextNotify]_vars

\* ------------------------------------------- booking numbers and later saves
\* read_only_fields of BookingSerializer: the serializer drops them from the
\* request body before validate and update see it.
read_only_fields ==
    {"booking_number", "confirmed_at", "checked_in_at", "checked_out_at",
     "cancelled_at", "paid_amount"}

validated_data(data) ==
    [f \in (DOMAIN data) \ read_only_fields |-> data[f]]

\* Request bodies that try to write a read-only field.
ReadOnlyPatches ==
    {[booking_number |-> n] : n \in 1..MaxClock}
    \cup {[confirmed_at |-> t] : t \in Null..MaxClock}
    \cup {[cancelled_at |-> t] : t \in Null..MaxClock}

\* PUT/PATCH /bookings/{id}/ with such a body.
PatchReadOnly(id, data) == BookingUpdate(id, validated_data(data))

\* Bookings are created for a valid stay (both paths), then confirmed,
\* cancelled or patched.
NextNumber ==
    \/ Tick
    \/ \E r \in Rooms, st \in {<<1, 2>>, <<2, 3>>} :
          SerializerCreate(r, st[1], st[2], STATUS_PENDING)
    \/ \E r \in Rooms, st \in {<<1, 2>>, <<2, 3>>} : ServiceCreate(r, st[1], st[2])
    \/ \E id \in BookingIds : ViewConfirm(id)
    \/ \E id \in BookingIds : ViewCancel(id)
    \/ \E id \in BookingIds, data \in ReadOnlyPatches : PatchReadOnly(id, data)

SpecNumber == Init /\ [][NextNumber]_vars

\* ------------------------------------------- concurrent transition requests
\* A status action of BookingViewSet reads the booking (get_object), tests
\* its status, and later saves the instance it read with the new status and
\* timestamp.  There is no transaction and no select_for_update, so another
\* request's save can commit between the read and the save; Model.save
\* writes every field of the instance that was read.

\* get_object and the status test of the action for `target`.
TransitionRead(c, id, target) ==
    LET snapshot == bookings[id]
        refused == ViewResponse(snapshot, target) # "ok"
    IN  /\ reqs[c].pc = "idle"
        /\ ViewResponse(snapshot, target) # "404"
        /\ reqs' = [reqs EXCEPT ![c] =
                      [pc |-> IF refused THEN "done" ELSE "write",
                       path |-> target, room |-> snapshot.room,
                       check_in_date |-> snapshot.check_in_date,
                       check_out_date |-> snapshot.check_out_date,
                       result |-> IF refused THEN "400" ELSE "",
                       id |-> id, instance |-> snapshot]]
        /\ UNCHANGED <<bookings, rooms, payments, now>>

\* booking.save() of the instance read earlier.
TransitionWrite(c) ==
    LET r == reqs[c]
    IN  /\ r.pc = "write"
        /\ SaveExisting(r.id, ViewInstance(r.instance, r.path))
        /\ reqs' = [reqs EXCEPT ![c] = [r EXCEPT !.pc = "done", !.result = "ok"]]
        /\ UNCHANGED <<payments, now>>

\* The response is returned; the client may send another request.
TransitionReturn(c) ==
    /\ reqs[c].pc = "done"
    /\ reqs' = [reqs EXCEPT ![c] = Idle]
    /\ UNCHANGED <<bookings, rooms, payments, now>>

NextTransitionRace ==
    \/ Tick
    \/ \E c \in Clients, id \in BookingIds, target \in STATUS_CHOICES :
          TransitionRead(c, id, target)
    \/ \E c \in Clients : TransitionWrite(c)
    \/ \E c \in Clients : TransitionReturn(c)

SpecTransitionRace == InitStatus /\ [][NextTransitionRace]_vars

\* ------------------------------------------------- concurrent payments
\* PaymentService.process_payment reads the booking with a plain
\* Booking.objects.get (no select_for_update), tests the amount against the
\* balance of the instance it read, and then writes.  The writes of one call
\* commit together (transaction.atomic); the aggregate of the post_save
\* receiver is evaluated when they run, over the rows committed by then.

\* Booking.objects.get and the two amount tests.
PaymentRead(c, id, amount) ==
    LET snapshot == bookings[id]
        refused == ProcessPaymentResponse(snapshot, amount) # "ok"
    IN  /\ reqs[c].pc = "idle"
        /\ reqs' = [reqs EXCEPT ![c] =
                      [pc |-> IF refused THEN "done" ELSE "write",
                       path |-> "process_payment", room |-> snapshot.room,
                       check_in_date |-> snapshot.check_in_date,
                       check_out_date |-> snapshot.check_out_date,
                       result |-> IF refused THEN "PaymentError" ELSE "",
                       id |-> id, amount |-> amount, instance |-> snapshot]]
        /\ UNCHANGED <<bookings, rooms, payments, now>>

\* Payment.objects.create, booking.record_payment and the commit.  The
\* receiver and record_payment write on the instance that was read.
PaymentWrite(c) ==
    LET r == reqs[c]
        read == [bookings EXCEPT ![r.id] = r.instance]
        s2 == CreateThenRecord(read, payments, r.id, r.amount, METHOD_CASH,
                               NoTransaction)
    IN  /\ r.pc = "write"
        /\ Len(payments) + 2 <= MaxPayments
        /\ bookings' = s2.bookings
        /\ payments' = s2.payments
        /\ reqs' = [reqs EXCEPT ![c] = [r EXCEPT !.pc = "done", !.result = "ok"]]
        /\ UNCHANGED <<rooms, now>>

NextPaymentRace ==
    \/ \E c \in Clients, id \in BookingIds, a \in Amounts : PaymentRead(c, id, a)
    \/ \E c \in Clients : PaymentWrite(c)

SpecPaymentRace == InitPay /\ [][NextPaymentRace]_vars

\* ------------------------------------------------------------------ claims

\* The transition table of the specification.
TransitionTable(s) ==
    CASE s = "pending" -> {"confirmed", "cancelled"}
      [] s = "confirmed" -> {"checked_in", "cancelled", "no_show"}
      [] s = "checked_in" -> {"checked_out"}
      [] OTHER -> {}

TerminalStatuses == {"checked_out", "cancelled", "no_show"}

\* Two half-open stays [ci, co) share a night.
StaysOverlap(a, b) ==
    \E d \in -1..5 :
        /\ a.check_in_date <= d /\ d < a.check_out_date
        /\ b.check_in_date <= d /\ d < b.check_out_date

\* C1: no two distinct bookings on the same room, both pending, confirmed or
\* checked_in, have overlapping stays [check_in_date, check_out_date).
C1_NoDoubleBooking ==
    \A i \in BookingIds, j \in BookingIds :
        (/\ i # j
         /\ bookings[i].room = bookings[j].room
         /\ bookings[i].status \in {"pending", "confirmed", "checked_in"}
         /\ bookings[j].status \in {"pending", "confirmed", "checked_in"})
        => ~StaysOverlap(bookings[i], bookings[j])

\* C3: a transition request for a (current, target) pair outside the table,
\* through any entry point (the BookingViewSet actions, the status
\* serializer, confirm_booking), is refused: it changes neither the status
\* nor a transition timestamp of the booking.
C3_IllegalTransitionRefused ==
    [][\A id \in BookingIds : \A t \in STATUS_CHOICES :
          (/\ t \notin TransitionTable(bookings[id].status)
           /\ \/ ViewAction(id, t)
              \/ StatusUpdate(id, t)
              \/ (t = "confirmed" /\ ServiceConfirm(id)))
          => bookings'[id] = bookings[id]]_vars

\* The effect C4 states for a transition to t: the status is t, the timestamp
\* of t is stamped with the current time, the other three are untouched.
Stamped(old, new, t) ==
    /\ new.status = t
    /\ new.confirmed_at = IF t = "confirmed" THEN now ELSE old.confirmed_at
    /\ new.checked_in_at = IF t = "checked_in" THEN now ELSE old.checked_in_at
    /\ new.checked_out_at = IF t = "checked_out" THEN now ELSE old.checked_out_at
    /\ new.cancelled_at = IF t = "cancelled" THEN now ELSE old.cancelled_at

C4_Accepted ==
    \A id \in BookingIds : \A t \in TransitionTable(bookings[id].status) :
        /\ ViewResponse(bookings[id], t) = "ok"
        /\ StatusUpdateResponse(bookings[id], t) = "ok"
        /\ (t = "confirmed" => ServiceConfirmResponse(bookings[id]) = "ok")

C4_Effect ==
    \A id \in BookingIds : \A t \in TransitionTable(bookings[id].status) :
        (\/ ViewAction(id, t)
         \/ StatusUpdate(id, t)
         \/ (t = "confirmed" /\ ServiceConfirm(id)))
        => Stamped(bookings[id], bookings'[id], t)

\* C4: for every pair of the table the request is accepted by every entry
\* point, and the step it takes sets the status to the target and stamps
\* exactly the target's timestamp.
C4_TableTransitionStamps == [](C4_Accepted) /\ [][C4_Effect]_vars

\* C4 witness: a booking taken through confirm, check_in and check_out.
C4_W ==
    \E id \in BookingIds :
        /\ bookings[id].status = "checked_out"
        /\ bookings[id].confirmed_at # Null
        /\ bookings[id].checked_in_at # Null
        /\ bookings[id].checked_out_at # Null
        /\ bookings[id].cancelled_at = Null

\* C5: once a booking is checked_out, cancelled or no_show, no step changes
\* its status.
C5_TerminalAbsorbing ==
    [][\A id \in BookingIds :
          bookings[id].status \in TerminalStatuses
          => bookings'[id].status = bookings[id].status]_vars

\* A stay a create request may ask for: it starts today or later and ends
\* after it starts.
ValidStay(r) == r.check_in_date >= Today /\ r.check_out_date > r.check_in_date

\* C2: of two concurrent create requests for valid, overlapping stays on the
\* same (free) room, exactly one succeeds, under every interleaving of their
\* checks and inserts.
C2_ExactlyOneCreateSucceeds ==
    (/\ reqs["c1"].pc = "done" /\ reqs["c2"].pc = "done"
     /\ reqs["c1"].room = reqs["c2"].room
     /\ ValidStay(reqs["c1"]) /\ ValidStay(reqs["c2"])
     /\ StaysOverlap(reqs["c1"], reqs["c2"]))
    => Cardinality({c \in Clients : reqs[c].result = "ok"}) = 1

\* The sum of the amounts of the completed Payment rows of booking id.
RECURSIVE CompletedTotal(_, _)
CompletedTotal(pays, id) ==
    IF pays = <<>> THEN 0
    ELSE CompletedTotal(Tail(pays), id)
         + (IF Head(pays).booking = id /\ Head(pays).status = "completed"
            THEN Head(pays).amount ELSE 0)

\* C6: in every state reached by payment operations, a booking's paid_amount
\* is the sum of the amounts of its completed Payment rows.
C6_PaidIsSumOfCompleted ==
    \A id \in BookingIds :
        bookings[id].paid_amount = CompletedTotal(payments, id)

\* C6 witness: completed and failed rows exist and something is paid.
C6_W ==
    /\ \E i \in 1..Len(payments) : payments[i].status = "failed"
    /\ \E i \in 1..Len(payments) : payments[i].status = "completed"
    /\ bookings[1].paid_amount > 0

\* The payment_status the specification derives from the amounts.
DerivedStatus(b) ==
    IF b.paid_amount >= b.total_price THEN "paid"
    ELSE IF b.paid_amount > 0 THEN "partially_paid"
    ELSE "pending"

\* C7: payment_status is the status derived from paid_amount and
\* total_price, in the booking the post_save receiver leaves and in the
\* booking record_payment saves for any amount the gateway may report.
C7_PaymentStatusDerived ==
    \A id \in BookingIds :
        /\ bookings[id].payment_status = DerivedStatus(bookings[id])
        /\ \A a \in GatewayAmounts :
              LET s1 == PaymentCreated(bookings, payments,
                            PaymentRow(id, a, "credit_card", "NULL", "completed"))
                  saved == RecordPaymentInstance(s1.bookings[id], a)
              IN  saved.payment_status = DerivedStatus(saved)

\* C7 witness: a payment has left the booking partially paid, one unit short
\* of its total.
C7_W ==
    /\ Len(payments) > 0
    /\ bookings[1].payment_status = "partially_paid"
    /\ bookings[1].paid_amount + 1 = bookings[1].total_price

\* C8: a completed Payment row is created only for an amount that is
\* positive and does not exceed the balance due; any other payment request
\* is rejected and creates no row.
C8_InvalidAmountRejected ==
    [][Len(payments') > Len(payments)
       => LET p == payments'[Len(payments) + 1]
          IN  p.status = "completed"
              => /\ p.amount > 0
                 /\ p.amount <= balance_due(bookings[p.booking])]_vars

\* C9: paid_amount never exceeds total_price in a persisted state.
C9_PaidAtMostTotal ==
    \A id \in BookingIds : bookings[id].paid_amount <= bookings[id].total_price

\* C10: balance_due is never negative, and a payment of amount a that is
\* accepted while a does not exceed the balance due lowers balance_due by
\* exactly a (so after payments summing to S it is total_price - S).
C10_BalanceAfterPayments ==
    [][\A id \in BookingIds :
          /\ balance_due(bookings[id]) >= 0
          /\ \A a \in 1..MaxAmount :
                (/\ a <= balance_due(bookings[id])
                 /\ \/ ProcessPayment(id, a)
                    \/ PaymentSerializerCreate(id, a)
                    \/ \E tx \in TransactionIds : WebhookSuccess(id, a, tx))
                => balance_due(bookings'[id]) = balance_due(bookings[id]) - a]_vars

\* C11: a payment-succeeded webhook event delivered again, when a completed
\* Payment with its transaction id already exists on the booking, changes
\* neither the booking nor the payments (the event counts once).
C11_DuplicateWebhookIgnored ==
    [][\A id \in BookingIds : \A a \in GatewayAmounts : \A tx \in TransactionIds :
          (/\ \E i \in 1..Len(payments) :
                   /\ payments[i].booking = id
                   /\ payments[i].transaction_id = tx
                   /\ payments[i].status = "completed"
           /\ WebhookSuccess(id, a, tx))
          => (bookings' = bookings /\ payments' = payments)]_vars

\* A booking row whose stored payment fields are out of date.
StaleBooking(b, paid, st) ==
    [b EXCEPT !.paid_amount = paid, !.payment_status = st]

\* C12: recomputing paid_amount and payment_status from the completed
\* payments a second time, with no payment created in between, gives the
\* bookings the first recomputation gave, whatever the stored fields were.
\* The recomputation is the one the latest Payment row triggers.
C12_ReconcileIdempotent ==
    \A paid \in 0..MaxAmount : \A st \in {"pending", "partially_paid", "paid"} :
        payments # <<>>
        => LET row == payments[Len(payments)]
               id == row.booking
               stale == [bookings EXCEPT ![id] = StaleBooking(bookings[id], paid, st)]
               once == update_booking_payment_status(stale, payments, row)
               twice == update_booking_payment_status(once, payments, row)
           IN  twice = once

\* C12 witness: two completed rows exist and the recomputation changes a
\* booking whose stored fields say nothing was paid.
C12_W ==
    /\ Len(payments) >= 2
    /\ payments[1].status = "completed" /\ payments[2].status = "completed"
    /\ LET stale == [bookings EXCEPT ![1] = StaleBooking(bookings[1], 0, "pending")]
       IN  update_booking_payment_status(stale, payments, payments[1])[1].paid_amount
             = payments[1].amount + payments[2].amount

\* C13: a transition request (view action or status serializer) that takes a
\* booking to cancelled, no_show or checked_out leaves the booking's room
\* with is_available true.
C13_RoomFreedOnTerminal ==
    [][\A id \in BookingIds : \A t \in TerminalStatuses :
          (/\ \/ ViewAction(id, t)
              \/ StatusUpdate(id, t)
           /\ bookings[id].status # t
           /\ bookings'[id].status = t)
          => rooms'[bookings[id].room]]_vars

\* The room has a booking in pending, confirmed or checked_in assigned to it.
Occupied(bks, r) ==
    \E i \in 1..Len(bks) :
        bks[i].room = r /\ bks[i].status \in {"pending", "confirmed", "checked_in"}

\* C14: after every step that changes a booking row, is_available of the
\* room the booking was on and of the room it is on now is false exactly
\* when that room has a booking in pending, confirmed or checked_in.
C14_FlagIsProjection ==
    [][\A id \in BookingIds :
          bookings'[id] # bookings[id]
          => \A r \in {bookings[id].room, bookings'[id].room} :
                rooms'[r] = ~Occupied(bookings', r)]_vars

\* C15: a PUT/PATCH that moves a booking from room X to another room Y leaves
\* X's flag false exactly when X still has a pending, confirmed or checked_in
\* booking, and likewise Y's flag, the moved booking included.
C15_ReassignResyncsBothRooms ==
    [][\A id \in BookingIds : \A y \in Rooms :
          (/\ y # bookings[id].room
           /\ BookingUpdate(id, [room |-> y])
           /\ bookings'[id].room = y)
          => \A r \in {bookings[id].room, y} :
                rooms'[r] = ~Occupied(bookings', r)]_vars

\* C16: when a booking row is created, its room's is_available is false
\* afterwards if the booking is pending, and is what it was before if the
\* booking is created directly in cancelled, no_show or checked_out.
C16_CreateFlipsFlag ==
    [][Len(bookings') = Len(bookings) + 1
       => LET b == bookings'[Len(bookings')]
          IN  /\ b.status = "pending" => ~rooms'[b.room]
              /\ b.status \in TerminalStatuses => rooms'[b.room] = rooms[b.room]]_vars

\* The bookings that conflict with [ci, co) on room r by the rule of the
\* specification: pending, confirmed or checked_in, overlapping, other than
\* the booking under update.
Conflicts(bks, instance, r, ci, co) ==
    {i \in 1..Len(bks) :
        /\ i # instance
        /\ bks[i].room = r
        /\ bks[i].status \in {"pending", "confirmed", "checked_in"}
        /\ bks[i].check_in_date < co
        /\ bks[i].check_out_date > ci}

\* C17: for every room and valid stay, each availability check reports the
\* room unavailable exactly when a conflicting booking exists:
\* BookingSerializer.validate (on create and on update),
\* validate_room_availability and get_available_rooms.
C17_AvailabilityChecksAgree ==
    \A r \in Rooms : \A st \in Stays : \A instance \in {0} \cup BookingIds :
        (st[1] >= Today /\ st[1] < st[2])
        => LET data == [room |-> r, check_in_date |-> st[1], check_out_date |-> st[2]]
               conflict == Conflicts(bookings, instance, r, st[1], st[2]) # {}
           IN  /\ (validate(bookings, instance, data) = "room") <=> conflict
               /\ (validate_room_availability(bookings, instance, r, st[1], st[2])
                      = "ValidationError") <=> conflict
               /\ instance = 0
                  => ((r \notin get_available_rooms(bookings, rooms, st[1], st[2]))
                         <=> conflict)

\* C18: the outcome of create_booking for a room does not depend on the
\* room's is_available flag: with the same bookings and the flag set either
\* way, the response is the same.
C18_FlagNotConsulted ==
    \A r \in Rooms : \A flag \in BOOLEAN :
        ServiceCreateResponse(bookings, [rooms EXCEPT ![r] = flag], r)
            = ServiceCreateResponse(bookings, rooms, r)

\* C19: a create request for a valid stay on a room with no conflicting
\* booking (pending, confirmed or checked_in, overlapping) is accepted by
\* POST /bookings/ and by create_booking, whatever else is booked on the
\* room; the booking number of the current second is free.
C19_CreateSucceedsWhenFree ==
    \A r \in Rooms : \A st \in Stays :
        (/\ st[1] >= Today /\ st[1] < st[2]
         /\ ~NumberTaken(bookings, generate_booking_number)
         /\ Conflicts(bookings, 0, r, st[1], st[2]) = {})
        => /\ SerializerCreateResponse(bookings,
                  [room |-> r, check_in_date |-> st[1],
                   check_out_date |-> st[2], status |-> "pending"]) = "ok"
           /\ ServiceCreateResponse(bookings, rooms, r) = "ok"

\* C20: a create operation that fails (its response is not ok) leaves no
\* mutation behind: bookings, room flags and payments are what they were.
C20_FailedCreateChangesNothing ==
    [][\A r \in Rooms : \A st \in Stays : \A s \in STATUS_CHOICES :
          LET data == [room |-> r, check_in_date |-> st[1],
                       check_out_date |-> st[2], status |-> s]
          IN  /\ (/\ SerializerCreate(r, st[1], st[2], s)
                  /\ SerializerCreateResponse(bookings, data) # "ok")
                 => UNCHANGED <<bookings, rooms, payments>>
              /\ (/\ ServiceCreate(r, st[1], st[2])
                  /\ ServiceCreateResponse(bookings, rooms, r) # "ok")
                 => UNCHANGED <<bookings, rooms, payments>>]_vars

\* C21: a create_booking call whose notification dispatch failed, and that
\* was not refused for the room or the booking number, still succeeds for
\* the caller and its booking is persisted in pending.
C21_DispatchFailureKeepsBooking ==
    \A c \in Clients :
        (/\ reqs[c].pc = "done"
         /\ reqs[c].path = "dispatch_failed"
         /\ reqs[c].result \notin {"BookingError", "IntegrityError"})
        => /\ reqs[c].result = "ok"
           /\ \E id \in BookingIds :
                 /\ bookings[id].room = reqs[c].room
                 /\ bookings[id].check_in_date = reqs[c].check_in_date
                 /\ bookings[id].check_out_date = reqs[c].check_out_date
                 /\ bookings[id].status = "pending"

\* C22: every persisted booking has dates that validate_dates accepts:
\* check-out after check-in, check-in not in the past, stay within the
\* maximum; a create request with other dates persists nothing.
C22_PersistedDatesValid ==
    \A id \in BookingIds :
        /\ bookings[id].check_out_date > bookings[id].check_in_date
        /\ validate_dates([check_in_date |-> bookings[id].check_in_date,
                           check_out_date |-> bookings[id].check_out_date]) = "ok"

C23_Unique ==
    \A i \in BookingIds : \A j \in BookingIds :
        i # j => bookings[i].booking_number # bookings[j].booking_number

C23_Immutable ==
    \A id \in BookingIds :
        bookings'[id].booking_number = bookings[id].booking_number

C24_TimestampsSetOnce ==
    [][\A id \in BookingIds :
          /\ bookings[id].confirmed_at # Null
                => bookings'[id].confirmed_at = bookings[id].confirmed_at
          /\ bookings[id].checked_in_at # Null
                => bookings'[id].checked_in_at = bookings[id].checked_in_at
          /\ bookings[id].checked_out_at # Null
                => bookings'[id].checked_out_at = bookings[id].checked_out_at
          /\ bookings[id].cancelled_at # Null
                => bookings'[id].cancelled_at = bookings[id].cancelled_at
          /\ ~(bookings'[id].cancelled_at # Null /\ bookings'[id].checked_out_at # Null)]_vars

\* C25: transition requests on one booking are serialised: when a request
\* commits its new status, the transition it asked for is still one the
\* action accepts from the status committed at that moment (no request
\* overwrites what another one committed after it read the booking).
C25_TransitionsSerialised ==
    [][\A c \in Clients :
          TransitionWrite(c)
          => ViewResponse(bookings[reqs[c].id], reqs[c].path) = "ok"]_vars

C26_NotCompletedIsNoOp ==
    /\ \A id \in BookingIds :
          bookings[id].payment_status \in {"pending", "partially_paid", "paid"}
    /\ \A id \in BookingIds : \A a \in GatewayAmounts :
       \A st \in {"pending", "failed", "refunded"} :
          PaymentCreated(bookings, payments,
                         PaymentRow(id, a, "credit_card", "pi_1", st)).bookings
             = bookings

C26_FailureStep ==
    \A id \in BookingIds : \A a \in GatewayAmounts : \A tx \in TransactionIds :
        WebhookFailure(id, a, tx) => bookings' = bookings

\* C26: creating a Payment whose status is not completed (the payment-failed
\* webhook in particular) leaves every booking as it was, and payment_status
\* is only ever pending, partially_paid or paid.
C26_FailedPaymentNoEffect == [](C26_NotCompletedIsNoOp) /\ [][C26_FailureStep]_vars

\* C26 witness: a failed row was recorded after a payment had been counted.
C26_W ==
    /\ Len(payments) >= 2
    /\ payments[Len(payments)].status = "failed"
    /\ payments[1].status = "completed"
    /\ bookings[1].paid_amount = payments[1].amount
    /\ bookings[1].payment_status = "partially_paid"

\* The completed Payment rows of booking id among rows from..Len(pays).
CompletedRowsFrom(pays, id, from) ==
    {i \in from..Len(pays) :
        pays[i].booking = id /\ pays[i].status = "completed"}

\* C27: an accepted process_payment call and a handled payment-succeeded
\* webhook with amount a add exactly one completed Payment row, of amount a,
\* to the booking and raise its paid_amount by exactly a.
C27_OneRowPerPayment ==
    [][\A id \in BookingIds : \A a \in GatewayAmounts :
          (\/ (ProcessPayment(id, a) /\ ProcessPaymentResponse(bookings[id], a) = "ok")
           \/ \E tx \in TransactionIds : WebhookSuccess(id, a, tx))
          => /\ Cardinality(CompletedRowsFrom(payments', id, Len(payments) + 1)) = 1
             /\ payments'[Len(payments) + 1].amount = a
             /\ bookings'[id].paid_amount = bookings[id].paid_amount + a]_vars

\* C28: for every booking and every target status, the BookingViewSet action
\* and BookingStatusUpdateSerializer either both refuse or both accept, and
\* when they accept they save the same booking (status and timestamps).
C28_ViewAndSerializerAgree ==
    \A id \in BookingIds :
    \A t \in {"confirmed", "checked_in", "checked_out", "cancelled", "no_show"} :
        /\ (ViewResponse(bookings[id], t) = "ok")
              <=> (StatusUpdateResponse(bookings[id], t) = "ok")
        /\ ViewResponse(bookings[id], t) = "ok"
              => ViewInstance(bookings[id], t) = StatusUpdateInstance(bookings[id], t)

\* C29: when two process_payment calls have each read the booking before the
\* other saved and both have finished, paid_amount is the sum of the
\* completed payments, and they were not both accepted if their amounts
\* together exceed the balance due they read.
C29_ConcurrentPaymentsSafe ==
    (/\ reqs["c1"].pc = "done" /\ reqs["c2"].pc = "done"
     /\ reqs["c1"].id = reqs["c2"].id
     /\ reqs["c1"].instance = reqs["c2"].instance)
    => /\ bookings[reqs["c1"].id].paid_amount
             = CompletedTotal(payments, reqs["c1"].id)
       /\ reqs["c1"].amount + reqs["c2"].amount > balance_due(reqs["c1"].instance)
             => ~(reqs["c1"].result = "ok" /\ reqs["c2"].result = "ok")

\* C30: for every valid stay, every room get_available_rooms returns has no
\* overlapping pending, confirmed or checked_in booking and a create request
\* for it passes BookingSerializer.validate; and every room with no such
\* booking is returned.
C30_AvailableRoomsMatchValidate ==
    \A st \in Stays :
        (st[1] >= Today /\ st[1] < st[2])
        => \A r \in Rooms :
            /\ r \in get_available_rooms(bookings, rooms, st[1], st[2])
                 => /\ Conflicts(bookings, 0, r, st[1], st[2]) = {}
                    /\ validate(bookings, 0,
                                [room |-> r, check_in_date |-> st[1],
                                 check_out_date |-> st[2]]) = "ok"
            /\ Conflicts(bookings, 0, r, st[1], st[2]) = {}
                 => r \in get_available_rooms(bookings, rooms, st[1], st[2])

====
